---------------------------- MODULE Spec2Model ----------------------------
(***************************************************************************)
(* UI state perception and annotation engine of the MCP automation         *)
(* servers (Android, iOS, Chrome, Mac): hierarchy ingestion, geometry,     *)
(* interactivity classification, indexing, overlay rendering and           *)
(* serialisation, modelled operation by operation from the sources.        *)
(*                                                                         *)
(* One behaviour is one call of an entry point: Init draws the entry       *)
(* point, the raw dump and the driver's behaviour (env); the action of     *)
(* that entry point computes what the code returns or raises.              *)
(***************************************************************************)
EXTENDS Integers, Sequences, FiniteSets, TLC

VARIABLES
    pc,          \* "call" before the entry point runs, then "returned" or "raised"
    platform,    \* the entry point called
    dump,        \* the raw hierarchy the driver hands out
    use_vision,  \* argument of get_state
    env,         \* driver behaviour: which fetch or drawing step throws
    state,       \* the returned MobileState / IOSState / ChromeState / MacState
    fetches,     \* driver calls made: hierarchy and screenshot fetches
    session,     \* the driver session the device object holds
    timestamp,   \* time.time() as the last get_state call read it
    previous,    \* <<>>, or the one result of an earlier call on the same dump
    files        \* the file system: the text stored under each path

vars == <<pc, platform, dump, use_vision, env, state, fetches, session,
          timestamp, previous, files>>

(***************************************************************************)
(* Bounds of the model.                                                    *)
(***************************************************************************)
MaxAndroidNodes == 2
MaxIOSNodes == 3
MaxChromeElements == 2
MaxMacItems == 11
MaxCoord == 10

(***************************************************************************)
(* Python helpers.                                                         *)
(***************************************************************************)
\* dict.get(key, default) on a mapping modelled as a function
Get(d, key, default) == IF key \in DOMAIN d THEN d[key] ELSE default

\* Sequences of length at most n over S
SeqsUpTo(S, n) == UNION {[1..k -> S] : k \in 0..n}

\* Strings that the code parses or formats are sequences of characters
Digits == {"0", "1", "2", "3", "4", "5", "6", "7", "8", "9"}

DigitVal(c) ==
    CASE c = "0" -> 0 [] c = "1" -> 1 [] c = "2" -> 2 [] c = "3" -> 3
      [] c = "4" -> 4 [] c = "5" -> 5 [] c = "6" -> 6 [] c = "7" -> 7
      [] c = "8" -> 8 [] c = "9" -> 9

DigitChar(n) ==
    CASE n = 0 -> "0" [] n = 1 -> "1" [] n = 2 -> "2" [] n = 3 -> "3"
      [] n = 4 -> "4" [] n = 5 -> "5" [] n = 6 -> "6" [] n = 7 -> "7"
      [] n = 8 -> "8" [] n = 9 -> "9"

\* the character at 1-based position i, "" past the end
CharAt(s, i) == IF i \in 1..Len(s) THEN s[i] ELSE ""

\* int(): the value of a non-empty run of decimal digits
RECURSIVE int(_)
int(s) ==
    IF Len(s) = 0 THEN 0
    ELSE int(SubSeq(s, 1, Len(s) - 1)) * 10 + DigitVal(s[Len(s)])

\* str() of an integer, as an f-string formats it
RECURSIVE StrNat(_)
StrNat(n) ==
    IF n < 10 THEN <<DigitChar(n)>>
    ELSE StrNat(n \div 10) \o <<DigitChar(n % 10)>>

str(n) == IF n < 0 THEN <<"-">> \o StrNat(-n) ELSE StrNat(n)

(***************************************************************************)
(* Android: src/mcp/android/src/tree/utils.py                              *)
(***************************************************************************)
\* length of the longest run of digits of s that starts at position p (\d+)
RECURSIVE DigitRun(_, _)
DigitRun(s, p) ==
    IF CharAt(s, p) \in Digits THEN 1 + DigitRun(s, p + 1) ELSE 0

\* re.match of \[(\d+),(\d+)]\[(\d+),(\d+)] at position p: the four groups,
\* or <<>> when the pattern does not match there.  Each \d+ is followed by a
\* literal that is no digit, so only the longest run of digits can match.
MatchAt(s, p) ==
    LET n1 == DigitRun(s, p + 1)
        q1 == p + 1 + n1
        n2 == DigitRun(s, q1 + 1)
        q2 == q1 + 1 + n2
        n3 == DigitRun(s, q2 + 2)
        q3 == q2 + 2 + n3
        n4 == DigitRun(s, q3 + 1)
        q4 == q3 + 1 + n4
    IN  IF /\ CharAt(s, p) = "["
           /\ n1 >= 1
           /\ CharAt(s, q1) = ","
           /\ n2 >= 1
           /\ CharAt(s, q2) = "]"
           /\ CharAt(s, q2 + 1) = "["
           /\ n3 >= 1
           /\ CharAt(s, q3) = ","
           /\ n4 >= 1
           /\ CharAt(s, q4) = "]"
        THEN << SubSeq(s, p + 1, q1 - 1), SubSeq(s, q1 + 1, q2 - 1),
                SubSeq(s, q2 + 2, q3 - 1), SubSeq(s, q3 + 1, q4 - 1) >>
        ELSE << >>

\* re.search: the match at the leftmost position that has one
re_search(s) ==
    LET hits == {p \in 1..Len(s) : MatchAt(s, p) # << >>}
    IN  IF hits = {} THEN << >>
        ELSE MatchAt(s, CHOOSE p \in hits : \A q \in hits : p <= q)

\* extract_cordinates(bounds): (x1, y1, x2, y2), or None (here <<>>) when
\* the string does not match
extract_cordinatesSwapsCorners(bounds) ==
    LET match == re_search(bounds)
    IN  IF match # << >>
        THEN <<int(match[3]), int(match[4]), int(match[1]), int(match[2])>>
        ELSE << >>
extract_cordinates(bounds) ==
    LET match == re_search(bounds)
    IN  IF match # << >>
        THEN <<int(match[1]), int(match[2]), int(match[3]), int(match[4])>>
        ELSE << >>

\* get_center_cordinates(cordinates)
get_center_cordinates(cordinates) ==
    << (cordinates[1] + cordinates[3]) \div 2,
       (cordinates[2] + cordinates[4]) \div 2 >>

(***************************************************************************)
(* Android: src/mcp/android/src/tree/views.py                              *)
(***************************************************************************)
\* BoundingBox.to_string(): f'[{x1},{y1}][{x2},{y2}]'
BoundingBox_to_string(box) ==
    <<"[">> \o str(box[1]) \o <<",">> \o str(box[2]) \o <<"]">> \o
    <<"[">> \o str(box[3]) \o <<",">> \o str(box[4]) \o <<"]">>


(***************************************************************************)
(* Results of calls that may raise.                                        *)
(***************************************************************************)
Ok(v) == [raised |-> FALSE, value |-> v, exc |-> "None"]
Raise(e) == [raised |-> TRUE, value |-> << >>, exc |-> e]

\* images: the overlay drawn on a screenshot, one record per rectangle+label
\* in drawing order; index is the 0-based position of the element drawn
Annotated(boxes) == [kind |-> "annotated", boxes |-> boxes]
Plain == [kind |-> "plain", boxes |-> << >>]
NoneImage == [kind |-> "None", boxes |-> << >>]

NoState == [tree_state |-> [elements |-> << >>, interactive_elements |-> << >>],
            screenshot |-> NoneImage]
NoFetch == [hierarchy |-> 0, screenshot |-> 0]

\* int(v * scale) for the scale every get_state passes, 1.0, and integer v
ScaleInt(v) == v

(***************************************************************************)
(* Android: src/mcp/android/src/tree/__init__.py                           *)
(***************************************************************************)
\* src.tree.config.INTERACTIVE_CLASSES (the whitelist of widget classes)
INTERACTIVE_CLASSES ==
    {"android.widget.Button", "android.widget.EditText",
     "android.widget.CheckBox", "android.widget.Switch"}

\* truthiness of attributes.get(key): present and not the empty string
Truthy(attributes, key) == key \in DOMAIN attributes /\ attributes[key] # ""

\* findall('.//node[@visible-to-user="true"][@enabled="true"]') over the
\* nodes of the dump in document order
findallVisibleToUser(nodes) ==
    SelectSeq(nodes, LAMBDA n : Get(n, "visible-to-user", "") = "true")
findall(nodes) ==
    SelectSeq(nodes, LAMBDA n : /\ Get(n, "visible-to-user", "") = "true"
                                /\ Get(n, "enabled", "") = "true")

\* the condition of line 31
IsCandidate(attributes) ==
    \/ Truthy(attributes, "text")
    \/ Truthy(attributes, "content-desc")
    \/ Get(attributes, "class", "None") \in INTERACTIVE_CLASSES

\* attributes.get('text') or attributes.get('content-desc')
NodeName(attributes) ==
    IF Truthy(attributes, "text") THEN attributes["text"]
    ELSE Get(attributes, "content-desc", "None")

\* lines 32-39 for one candidate node: the ElementNode, or the TypeError of
\* re.search(None) / of unpacking None
ElementOf(attributes, c) ==
    IF Len(c) # 4 THEN Raise("TypeError")
    ELSE Ok([name |-> NodeName(attributes),
             coordinates |-> get_center_cordinates(c),
             bounding_box |-> c])

ElementNode(attributes) ==
    IF "bounds" \notin DOMAIN attributes THEN Raise("TypeError")
    ELSE ElementOf(attributes, extract_cordinates(attributes["bounds"]))

\* the loop of Tree.get_interactive_elements over the selected nodes
RECURSIVE InteractiveLoop(_, _)
\* one candidate node: an exception ends the loop, an element is appended
InteractiveAppend(elem, rest, acc) ==
    IF elem.raised THEN elem
    ELSE InteractiveLoop(rest, Append(acc, elem.value))
InteractiveLoop(nodes, acc) ==
    IF nodes = << >> THEN Ok(acc)
    ELSE IF ~IsCandidate(Head(nodes)) THEN InteractiveLoop(Tail(nodes), acc)
    ELSE InteractiveAppend(ElementNode(Head(nodes)), Tail(nodes), acc)

\* Tree.get_interactive_elements(): dump_hierarchy, fromstring, the loop
Tree_get_interactive_elements(d, e) ==
    IF e.hierarchy_raises THEN Raise("Exception")
    ELSE InteractiveLoop(findall(d.nodes), << >>)

\* Tree.get_state()
TreeState(r) ==
    IF r.raised THEN r
    ELSE Ok([elements |-> << >>, interactive_elements |-> r.value])

Tree_get_state(d, e) == TreeState(Tree_get_interactive_elements(d, e))

padding == 15

\* draw_annotation(label, node): the rectangle drawn and its label
AndroidLabel(i) == i
draw_annotation(label, node, i) ==
    [label |-> label, index |-> i,
     box |-> << ScaleInt(node.bounding_box[1]) + padding,
                ScaleInt(node.bounding_box[2]) + padding,
                ScaleInt(node.bounding_box[3]) + padding,
                ScaleInt(node.bounding_box[4]) + padding >>]

\* Tree.annotated_screenshot(nodes, scale): no handler around the drawing
Tree_annotated_screenshot(nodes, e) ==
    IF e.screenshot_raises THEN Raise("RuntimeError")
    ELSE IF e.render_raises /\ nodes # << >> THEN Raise("ValueError")
    ELSE Ok(Annotated([i \in 1..Len(nodes) |->
                          draw_annotation(AndroidLabel(i - 1), nodes[i], i - 1)]))

\* TreeState.to_string(): one line per interactive element,
\* 'Label: {index} Name: {name} Coordinates: (x,y)'
AndroidPrintedNumberOneBased(index) == index + 1
AndroidPrintedNumber(index) == index

\* CenterCord.to_string(): f'({x},{y})'
CenterCord_to_string(c) ==
    <<"(">> \o str(c[1]) \o <<",">> \o str(c[2]) \o <<")">>

\* one line of TreeState.to_string(): the pieces of the f-string in order,
\* the numbers formatted digit by digit, the name as it is
Android_line(index, node) ==
    <<"Label: ">> \o str(AndroidPrintedNumber(index)) \o <<" Name: ", node.name>>
    \o <<" Coordinates: ">> \o CenterCord_to_string(node.coordinates)

Android_to_string(tree_state) ==
    [i \in 1..Len(tree_state.interactive_elements) |->
        [number |-> AndroidPrintedNumber(i - 1), index |-> i - 1,
         line |-> Android_line(i - 1, tree_state.interactive_elements[i]),
         name |-> tree_state.interactive_elements[i].name,
         coordinates |-> tree_state.interactive_elements[i].coordinates]]

(***************************************************************************)
(* Android: src/mcp/android/src/mobile/__init__.py                         *)
(***************************************************************************)
\* Mobile.get_state(use_vision): any exception becomes a RuntimeError
MobileState(tree_state, a) ==
    IF a.raised THEN Raise("RuntimeError")
    ELSE Ok([tree_state |-> tree_state, screenshot |-> a.value])

MobileStateOf(t, e, vision) ==
    IF t.raised THEN Raise("RuntimeError")
    ELSE IF ~vision THEN MobileState(t.value, Ok(NoneImage))
    ELSE MobileState(t.value,
                     Tree_annotated_screenshot(t.value.interactive_elements, e))

Mobile_get_state(d, e, vision) == MobileStateOf(Tree_get_state(d, e), e, vision)

\* driver calls of Mobile.get_state: dump_hierarchy, device.screenshot
Mobile_fetches(d, e, vision) ==
    [hierarchy |-> 1,
     screenshot |-> IF vision /\ ~Tree_get_state(d, e).raised THEN 1 ELSE 0]

(***************************************************************************)
(* iOS: src/mcp/ios/src/tree/__init__.py                                   *)
(***************************************************************************)
\* A frame of the JSON dump: kind "dict" with the mapping d, kind "list" for
\* an entry that is no mapping, kind "None" for the absent parent frame.
Frame(x, y, width, height) ==
    [kind |-> "dict", d |-> [x |-> x, y |-> y, width |-> width, height |-> height]]
ListFrame == [kind |-> "list", d |-> [x |-> 0]]
NoneFrame == [kind |-> "None", d |-> [x |-> 0]]

\* truthiness of a frame: None and {} are falsy
FrameTruthy(f) ==
    \/ f.kind = "list"
    \/ f.kind = "dict" /\ DOMAIN f.d # {}

\* config.MIN_INTERACTIVE_SIZE, the size utils.is_interactive_element asks
\* of an interactive element; IOSTree does not import it
MIN_INTERACTIVE_SIZE == [width |-> 10, height |-> 10]

\* config.INTERACTIVE_ELEMENT_TYPES
INTERACTIVE_ELEMENT_TYPES ==
    {"XCUIElementTypeButton", "XCUIElementTypeTextField",
     "XCUIElementTypeSecureTextField", "XCUIElementTypeTextView",
     "XCUIElementTypeSwitch", "XCUIElementTypeSlider", "XCUIElementTypeCell",
     "XCUIElementTypeLink", "XCUIElementTypeImage", "XCUIElementTypeTab",
     "XCUIElementTypeTabBar", "XCUIElementTypeNavigationBar",
     "XCUIElementTypeSearchField", "XCUIElementTypeSegmentedControl",
     "XCUIElementTypePicker", "XCUIElementTypePickerWheel",
     "XCUIElementTypeCollectionView", "XCUIElementTypeTableView",
     "XCUIElementTypeScrollView"}

\* utils.is_interactive_element(element_type, frame, enabled, visible)
is_interactive_element(element_type, frame, enabled, visible) ==
    IF ~enabled \/ ~visible THEN FALSE
    ELSE IF element_type \notin INTERACTIVE_ELEMENT_TYPES THEN FALSE
    ELSE IF \/ Get(frame, "width", 0) < MIN_INTERACTIVE_SIZE.width
            \/ Get(frame, "height", 0) < MIN_INTERACTIVE_SIZE.height
    THEN FALSE
    ELSE TRUE

\* IOSTree.interactive_types
interactive_types ==
    {"XCUIElementTypeButton", "XCUIElementTypeTextField",
     "XCUIElementTypeSecureTextField", "XCUIElementTypeTextView",
     "XCUIElementTypeSwitch", "XCUIElementTypeSlider", "XCUIElementTypeCell",
     "XCUIElementTypeLink", "XCUIElementTypeImage", "XCUIElementTypeTab",
     "XCUIElementTypeTabBar", "XCUIElementTypeNavigationBar",
     "XCUIElementTypeSearchField", "XCUIElementTypeSegmentedControl",
     "XCUIElementTypePicker", "XCUIElementTypePickerWheel"}

\* lines 219-229: the absolute frame; frame.get on an entry that is no
\* mapping raises (AttributeError)
abs_frame(frame, parent_frame) ==
    IF FrameTruthy(parent_frame) /\ FrameTruthy(frame)
    THEN IF frame.kind # "dict" \/ parent_frame.kind # "dict"
         THEN Raise("AttributeError")
         ELSE Ok(Frame(Get(frame.d, "x", 0) + Get(parent_frame.d, "x", 0),
                       Get(frame.d, "y", 0) + Get(parent_frame.d, "y", 0),
                       Get(frame.d, "width", 0),
                       Get(frame.d, "height", 0)))
    ELSE Ok(frame)

\* lines 231-238, the `and` chain; abs_frame.get is reached only after the
\* three tests before it hold
IOSInteractive(node, absf) ==
    IF ~(node.enabled /\ node.visible /\ node.type \in interactive_types)
    THEN Ok(FALSE)
    ELSE IF absf.kind # "dict" THEN Raise("AttributeError")
    ELSE Ok(Get(absf.d, "width", 0) > 0 /\ Get(absf.d, "height", 0) > 0)

\* lines 240-249
IOSElement(node, absf, interactive) ==
    IF interactive.raised THEN << >>
    ELSE << [id |-> node.identifier, name |-> node.name, label |-> node.label,
             className |-> node.type, frame |-> absf,
             enabled |-> node.enabled, visible |-> node.visible,
             interactive |-> interactive.value] >>

IOSElementIn(node, absf) ==
    IF absf.raised THEN << >>
    ELSE IOSElement(node, absf.value, IOSInteractive(node, absf.value))

\* IOSTree._create_element(node, parent_frame): <<element>>, or <<>> for the
\* None the except clause returns
IOSTree_create_element(node, parent_frame) ==
    IOSElementIn(node, abs_frame(node.frame, parent_frame))

\* IOSTree._parse_elements(source, parent_frame): the node, then its
\* children, each parsed with source.get('frame')
RECURSIVE IOSTree_parse_elements(_, _)
RECURSIVE IOSParseChildren(_, _)
RECURSIVE IOSParseChildrenLastFirst(_, _)
IOSParseChildrenLastFirst(children, frame) ==
    IF children = << >> THEN << >>
    ELSE IOSParseChildrenLastFirst(Tail(children), frame)
         \o IOSTree_parse_elements(Head(children), frame)
IOSParseChildren(children, frame) ==
    IF children = << >> THEN << >>
    ELSE IOSTree_parse_elements(Head(children), frame)
         \o IOSParseChildren(Tail(children), frame)
IOSTree_parse_elements(source, parent_frame) ==
    IOSTree_create_element(source, parent_frame)
    \o IOSParseChildren(source.children, source.frame)

\* IOSElement.bounds: (x, y, width, height) of the element's frame
IOSElement_boundsAsCorners(element) ==
    << Get(element.frame.d, "x", 0), Get(element.frame.d, "y", 0),
       Get(element.frame.d, "x", 0) + Get(element.frame.d, "width", 0),
       Get(element.frame.d, "y", 0) + Get(element.frame.d, "height", 0) >>
IOSElement_bounds(element) ==
    << Get(element.frame.d, "x", 0), Get(element.frame.d, "y", 0),
       Get(element.frame.d, "width", 0), Get(element.frame.d, "height", 0) >>

\* IOSElement.center
IOSElement_centerRoundsUp(element) ==
    << IOSElement_bounds(element)[1] + (IOSElement_bounds(element)[3] + 1) \div 2,
       IOSElement_bounds(element)[2] + (IOSElement_bounds(element)[4] + 1) \div 2 >>
IOSElement_center(element) ==
    << IOSElement_bounds(element)[1] + IOSElement_bounds(element)[3] \div 2,
       IOSElement_bounds(element)[2] + IOSElement_bounds(element)[4] \div 2 >>

\* line 161: [elem for elem in elements if elem.interactive]
IOSFilterByEnabled(elements) ==
    SelectSeq(elements, LAMBDA elem : elem.enabled /\ elem.visible)
IOSFilterInteractive(elements) ==
    SelectSeq(elements, LAMBDA elem : elem.interactive)

IOSTreeState(elements, d) ==
    [elements |-> elements,
     interactive_elements |-> IOSFilterInteractive(elements),
     window_size |-> d.window_size, orientation |-> d.orientation]

\* IOSTree.get_state(): the parsed state, or the minimal state of the
\* except clause when session.source throws
IOSTree_get_state(d, e) ==
    IF e.hierarchy_raises
    THEN [elements |-> << >>, interactive_elements |-> << >>,
          window_size |-> <<375, 667>>, orientation |-> "PORTRAIT"]
    ELSE IOSTreeState(IOSTree_parse_elements(d.source, NoneFrame), d)

\* line 289: text = str(i + 1)
IOSLabelZeroBased(i) == i
IOSLabel(i) == i + 1

\* lines 274-305 for one element: the rectangle and its number
IOSDraw(element, i) ==
    [label |-> IOSLabel(i), index |-> i,
     box |-> << ScaleInt(IOSElement_bounds(element)[1]),
                ScaleInt(IOSElement_bounds(element)[2]),
                ScaleInt(IOSElement_bounds(element)[1]) + ScaleInt(IOSElement_bounds(element)[3]),
                ScaleInt(IOSElement_bounds(element)[2]) + ScaleInt(IOSElement_bounds(element)[4]) >>]

\* the loop of lines 270-305: elements that are not interactive are skipped
RECURSIVE IOSDrawLoop(_, _)
IOSDrawLoop(nodes, i) ==
    IF i >= Len(nodes) THEN << >>
    ELSE IF ~nodes[i + 1].interactive THEN IOSDrawLoop(nodes, i + 1)
    ELSE << IOSDraw(nodes[i + 1], i) >> \o IOSDrawLoop(nodes, i + 1)

\* IOSTree.annotated_screenshot(nodes, scale): when drawing raises, the
\* except clause fetches a second, plain screenshot
IOSTree_annotated_screenshot(nodes, e) ==
    IF e.screenshot_raises THEN Raise("RuntimeError")
    ELSE IF e.render_raises /\ IOSDrawLoop(nodes, 0) # << >> THEN Ok(Plain)
    ELSE Ok(Annotated(IOSDrawLoop(nodes, 0)))

\* TreeState.to_string(), the "Interactive Elements:" list (lines 98-109)
IOSPrintedNumber(i) == i + 1
IOS_to_string(tree_state) ==
    [i \in 1..Len(tree_state.interactive_elements) |->
        [number |-> IOSPrintedNumber(i - 1), index |-> i - 1,
         className |-> tree_state.interactive_elements[i].className,
         name |-> tree_state.interactive_elements[i].name,
         label |-> tree_state.interactive_elements[i].label,
         bounds |-> IOSElement_bounds(tree_state.interactive_elements[i])]]

\* lines 82-91: the line of element i in the "All Elements with Text" list
IOSTextLineUnmarked(element, i) ==
    [number |-> i + 1, className |-> element.className, name |-> element.name,
     label |-> IF element.label # element.name THEN element.label ELSE "",
     bounds |-> IOSElement_bounds(element), interactive |-> FALSE]
IOSTextLine(element, i) ==
    [number |-> i + 1, className |-> element.className, name |-> element.name,
     label |-> IF element.label # element.name THEN element.label ELSE "",
     bounds |-> IOSElement_bounds(element), interactive |-> element.interactive]

\* lines 79-91: the loop over enumerate(self.elements)
RECURSIVE IOSTextLoop(_, _)
IOSTextLoop(elements, i) ==
    IF i >= Len(elements) THEN << >>
    ELSE IF elements[i + 1].name # "" \/ elements[i + 1].label # ""
    THEN << IOSTextLine(elements[i + 1], i) >> \o IOSTextLoop(elements, i + 1)
    ELSE IOSTextLoop(elements, i + 1)

\* lines 71-75: the counts of the header
IOS_to_string_header(tree_state) ==
    [total |-> Len(tree_state.elements),
     interactive |-> Len(tree_state.interactive_elements)]

(***************************************************************************)
(* iOS: src/mcp/ios/src/ios/__init__.py                                    *)
(***************************************************************************)
IOSState(tree_state, a) ==
    IF a.raised THEN Raise("RuntimeError")
    ELSE Ok([tree_state |-> tree_state, screenshot |-> a.value])

IOSStateOf(tree_state, e, vision) ==
    IF ~vision THEN IOSState(tree_state, Ok(NoneImage))
    ELSE IOSState(tree_state,
                  IOSTree_annotated_screenshot(tree_state.interactive_elements, e))

\* IOSDevice.get_session(): the cached session, created by client.session()
\* when there is none yet
IOSDevice_get_session(sess) ==
    IF sess.id = "None" THEN [sess EXCEPT !.id = "session1"] ELSE sess

\* IOSDevice.get_state(use_vision)
IOSDevice_get_state(d, e, vision) ==
    IOSStateOf(IOSTree_get_state(d, e), e, vision)

\* driver calls: session.source once; session.screenshot once, and once
\* more in the except clause of annotated_screenshot
IOSDevice_fetches(d, e, vision) ==
    [hierarchy |-> 1,
     screenshot |->
        IF ~vision THEN 0
        ELSE IF e.screenshot_raises THEN 2
        ELSE IF IOSTree_annotated_screenshot(
                    IOSTree_get_state(d, e).interactive_elements, e).value.kind = "plain"
        THEN 2 ELSE 1]

(***************************************************************************)
(* Chrome: src/mcp/chrome/src/page/__init__.py                             *)
(***************************************************************************)
interactive_tags ==
    {"a", "button", "input", "textarea", "select", "option", "label", "form",
     "fieldset", "legend", "details", "summary", "menuitem", "area", "canvas",
     "audio", "video", "iframe", "embed", "object"}

ChromeInputTypes ==
    {"button", "submit", "reset", "image", "checkbox", "radio", "text",
     "password", "email", "number", "tel", "url", "search", "date", "time",
     "datetime-local", "month", "week", "color", "file", "range"}

\* the attributes _parse_elements reads (line 168)
AttributeAllowlist ==
    {"id", "class", "name", "type", "href", "src", "alt", "title", "placeholder"}

\* lines 167-171: the allowlisted attributes that have a truthy value
ChromeAttributes(elem) ==
    [a \in {k \in AttributeAllowlist \cap DOMAIN elem.attrs : elem.attrs[k] # ""}
        |-> elem.attrs[a]]

ChromeMinSize == 5

\* PageTree._is_interactive_element(tag_name, attributes, visible, enabled, size);
\* tag names and attribute values of the inputs are lower case
PageTree_is_interactive_element(tag_name, attributes, visible, enabled, size) ==
    IF ~visible \/ ~enabled THEN FALSE
    ELSE IF Get(size, "width", 0) < ChromeMinSize \/ Get(size, "height", 0) < ChromeMinSize
    THEN FALSE
    ELSE IF tag_name \in interactive_tags THEN TRUE
    ELSE IF Get(attributes, "type", "") \in ChromeInputTypes THEN TRUE
    ELSE IF Get(attributes, "onclick", "") # "" THEN TRUE
    ELSE Get(attributes, "role", "") \in {"button", "link", "menuitem", "tab", "option"}

\* lines 161-200 for one element: <<WebElement>>, or <<>> when reading a
\* property raises and the element is skipped
WebElement(elem, attributes) ==
    << [id |-> Get(attributes, "id", "element_i"), tag_name |-> elem.tag_name,
        text |-> elem.text, attributes |-> attributes,
        location |-> elem.location, size |-> elem.size,
        visible |-> elem.displayed, enabled |-> elem.enabled,
        interactive |-> PageTree_is_interactive_element(
            elem.tag_name, attributes, elem.displayed, elem.enabled, elem.size)] >>

ChromeParseOne(elem) ==
    IF elem.raises THEN << >> ELSE WebElement(elem, ChromeAttributes(elem))

\* PageTree._parse_elements(): find_elements, then the loop
RECURSIVE ChromeParseLoop(_)
ChromeParseLoop(web_elements) ==
    IF web_elements = << >> THEN << >>
    ELSE ChromeParseOne(Head(web_elements)) \o ChromeParseLoop(Tail(web_elements))

PageTree_parse_elements(d, e) ==
    IF e.hierarchy_raises THEN << >> ELSE ChromeParseLoop(d.web_elements)

\* WebElement.bounds and WebElement.center
WebElement_bounds(element) ==
    << Get(element.location, "x", 0), Get(element.location, "y", 0),
       Get(element.size, "width", 0), Get(element.size, "height", 0) >>

WebElement_center(element) ==
    << WebElement_bounds(element)[1] + WebElement_bounds(element)[3] \div 2,
       WebElement_bounds(element)[2] + WebElement_bounds(element)[4] \div 2 >>

\* line 133
ChromeFilterDisplayed(elements) ==
    SelectSeq(elements, LAMBDA elem : elem.visible /\ elem.enabled)
ChromeFilterInteractive(elements) ==
    SelectSeq(elements, LAMBDA elem : elem.interactive)

PageState(elements, d) ==
    [elements |-> elements,
     interactive_elements |-> ChromeFilterInteractive(elements),
     page_info |-> d.page_info]

\* PageTree.get_state()
PageTree_get_state(d, e) == PageState(PageTree_parse_elements(d, e), d)

\* line 300: text = str(i + 1)
ChromeLabel(i) == i + 1

\* line 289: the element is skipped when its box leaves the screenshot
ChromeOutsideNever(box, shot) == FALSE
ChromeOutside(box, shot) ==
    \/ box[1] < 0
    \/ box[2] < 0
    \/ box[1] + box[3] > shot.width
    \/ box[2] + box[4] > shot.height

ChromeDraw(element, i) ==
    [label |-> ChromeLabel(i), index |-> i,
     box |-> << ScaleInt(WebElement_bounds(element)[1]),
                ScaleInt(WebElement_bounds(element)[2]),
                ScaleInt(WebElement_bounds(element)[1]) + ScaleInt(WebElement_bounds(element)[3]),
                ScaleInt(WebElement_bounds(element)[2]) + ScaleInt(WebElement_bounds(element)[4]) >>]

\* the loop of lines 277-328
RECURSIVE ChromeDrawLoop(_, _, _)
ChromeDrawLoop(elements, i, shot) ==
    IF i >= Len(elements) THEN << >>
    ELSE IF ~elements[i + 1].interactive THEN ChromeDrawLoop(elements, i + 1, shot)
    ELSE IF ChromeOutside(WebElement_bounds(elements[i + 1]), shot)
    THEN ChromeDrawLoop(elements, i + 1, shot)
    ELSE << ChromeDraw(elements[i + 1], i) >> \o ChromeDrawLoop(elements, i + 1, shot)

\* PageTree.annotated_screenshot(elements, scale)
PageTree_annotated_screenshot(elements, d, e) ==
    IF e.screenshot_raises THEN Raise("RuntimeError")
    ELSE IF e.render_raises /\ ChromeDrawLoop(elements, 0, d.screenshot) # << >>
    THEN Ok(Plain)
    ELSE Ok(Annotated(ChromeDrawLoop(elements, 0, d.screenshot)))

\* PageState.to_string(), the "Interactive Elements:" list (lines 79-90)
ChromePrintedNumber(i) == i + 1
Chrome_to_string(page_state) ==
    [i \in 1..Len(page_state.interactive_elements) |->
        [number |-> ChromePrintedNumber(i - 1), index |-> i - 1,
         tag |-> page_state.interactive_elements[i].tag_name,
         bounds |-> WebElement_bounds(page_state.interactive_elements[i])]]

(***************************************************************************)
(* Chrome: src/mcp/chrome/src/chrome/__init__.py                           *)
(***************************************************************************)
ChromeState(page_state, a) ==
    IF a.raised THEN Raise("RuntimeError")
    ELSE Ok([tree_state |-> page_state, screenshot |-> a.value])

ChromeStateOf(page_state, d, e, vision) ==
    IF ~vision THEN ChromeState(page_state, Ok(NoneImage))
    ELSE ChromeState(page_state,
                     PageTree_annotated_screenshot(page_state.interactive_elements, d, e))

\* ChromeBrowser._recover_browser(): quit the driver, initialise a new one
ChromeBrowser_recover_browser(sess, e) ==
    IF e.window = "recover"
    THEN [ok |-> TRUE, session |-> [id |-> "driver2", window |-> "window1"]]
    ELSE [ok |-> FALSE, session |-> [sess EXCEPT !.id = "quit"]]

\* ChromeBrowser._ensure_valid_window(): e.window says what the driver
\* answers -- "valid": the current window responds; "switch": it does not
\* and window_handles lists another one; "open": no window is left and
\* window.open makes one; "none": none is left and none can be made;
\* "recover", "dead": the driver itself fails and the browser is
\* re-initialised, with or without success
ChromeBrowser_ensure_valid_window(sess, e) ==
    CASE e.window = "valid" -> [ok |-> TRUE, session |-> sess]
      [] e.window = "switch" -> [ok |-> TRUE, session |-> [sess EXCEPT !.window = "window2"]]
      [] e.window = "open" -> [ok |-> TRUE, session |-> [sess EXCEPT !.window = "window3"]]
      [] e.window = "none" -> [ok |-> FALSE, session |-> sess]
      [] e.window \in {"recover", "dead"} -> ChromeBrowser_recover_browser(sess, e)

\* ChromeBrowser.get_state(use_vision), the current window being valid
ChromeBrowser_get_state(d, e, vision) ==
    ChromeStateOf(PageTree_get_state(d, e), d, e, vision)

ChromeBrowser_fetches(d, e, vision) ==
    [hierarchy |-> 1,
     screenshot |->
        IF ~vision THEN 0
        ELSE IF e.screenshot_raises THEN 2
        ELSE IF PageTree_annotated_screenshot(
                    PageTree_get_state(d, e).interactive_elements, d, e).value.kind = "plain"
        THEN 2 ELSE 1]

\* ChromeBrowser.get_state(use_vision) from its first line: without a
\* valid window it raises
ChromeBrowser_get_state_checked(w, d, e, vision) ==
    IF w.ok THEN ChromeBrowser_get_state(d, e, vision) ELSE Raise("RuntimeError")

ChromeBrowser_fetches_checked(w, d, e, vision) ==
    IF w.ok THEN ChromeBrowser_fetches(d, e, vision) ELSE NoFetch

(***************************************************************************)
(* Mac: src/mcp/mac/src/page.py                                            *)
(***************************************************************************)
InteractiveElement(id, type, text, bounds) ==
    [id |-> id, type |-> type, text |-> text, bounds |-> bounds]

MacBounds(x, y, width, height) == [x |-> x, y |-> y, width |-> width, height |-> height]

\* PageTree._get_desktop_items(): one element per non-blank name
RECURSIVE MacDesktopLoop(_, _)
MacDesktopLoop(item_names, i) ==
    IF i >= Len(item_names) THEN << >>
    ELSE IF item_names[i + 1] = "" THEN MacDesktopLoop(item_names, i + 1)
    ELSE << InteractiveElement("desktop_item", "file", item_names[i + 1],
                MacBounds(50 + (i % 10) * 80, 50 + (i \div 10) * 80, 64, 64)) >>
         \o MacDesktopLoop(item_names, i + 1)

\* PageTree._get_dock_items(): "missing value" is skipped too
RECURSIVE MacDockLoop(_, _)
MacDockLoop(item_names, i) ==
    IF i >= Len(item_names) THEN << >>
    ELSE IF item_names[i + 1] = "" \/ item_names[i + 1] = "missing value"
    THEN MacDockLoop(item_names, i + 1)
    ELSE << InteractiveElement("dock_item", "application", item_names[i + 1],
                MacBounds(100 + i * 60, 900, 56, 56)) >>
         \o MacDockLoop(item_names, i + 1)

\* PageTree._get_menu_bar_items(): nothing when the focused app is unknown
RECURSIVE MacMenuLoop(_, _)
MacMenuLoop(menu_names, i) ==
    IF i >= Len(menu_names) THEN << >>
    ELSE IF menu_names[i + 1] = "" \/ menu_names[i + 1] = "missing value"
    THEN MacMenuLoop(menu_names, i + 1)
    ELSE << InteractiveElement("menu_item", "menu", menu_names[i + 1],
                MacBounds(50 + i * 80, 0, 75, 22)) >>
         \o MacMenuLoop(menu_names, i + 1)

\* PageTree._get_window_elements(): one generic window element
MacWindowElements(d) ==
    IF d.focused_app # "Unknown" /\ d.window
    THEN << InteractiveElement("focused_window", "window", "Window",
                MacBounds(100, 100, 800, 600)) >>
    ELSE << >>

\* PageTree._discover_elements(): a query that throws yields no items
PageTree_discover_elements(d, e) ==
    IF e.hierarchy_raises THEN << >>
    ELSE MacDesktopLoop(d.desktop, 0) \o MacDockLoop(d.dock, 0)
         \o (IF d.focused_app # "Unknown" THEN MacMenuLoop(d.menu, 0) ELSE << >>)
         \o MacWindowElements(d)

\* PageTree.get_state() of the Mac desktop
MacPageTree_get_state(d, e) ==
    [interactive_elements |-> PageTree_discover_elements(d, e),
     title |-> "Mac Desktop", url |-> d.focused_app]

MacListLimit == 10
MacAnnotateLimit == 20

\* line 391: label = f"{i+1}. {element.text[:20]}"
MacLabel(i) == i + 1

MacDraw(element, i) ==
    [label |-> MacLabel(i), index |-> i,
     box |-> << ScaleInt(element.bounds.x), ScaleInt(element.bounds.y),
                ScaleInt(element.bounds.x) + ScaleInt(element.bounds.width),
                ScaleInt(element.bounds.y) + ScaleInt(element.bounds.height) >>]

\* the loop of lines 372-404 over elements[:20]
RECURSIVE MacDrawLoop(_, _)
MacDrawLoop(elements, i) ==
    IF i >= Len(elements) \/ i >= MacAnnotateLimit THEN << >>
    ELSE IF ~(ScaleInt(elements[i + 1].bounds.width) > 0
              /\ ScaleInt(elements[i + 1].bounds.height) > 0)
    THEN MacDrawLoop(elements, i + 1)
    ELSE << MacDraw(elements[i + 1], i) >> \o MacDrawLoop(elements, i + 1)

\* PageTree.annotated_screenshot(elements, scale) of the Mac desktop: None
\* when the screenshot cannot be taken
MacPageTree_annotated_screenshot(elements, e) ==
    IF e.screenshot_raises THEN Ok(NoneImage)
    ELSE IF e.render_raises /\ MacDrawLoop(elements, 0) # << >> THEN Ok(Plain)
    ELSE Ok(Annotated(MacDrawLoop(elements, 0)))

\* PageState.to_string(): the first 10 elements, numbered from 1
MacPrintedNumber(i) == i + 1
Mac_to_string(page_state) ==
    [i \in 1..(IF Len(page_state.interactive_elements) < MacListLimit
               THEN Len(page_state.interactive_elements) ELSE MacListLimit) |->
        [number |-> MacPrintedNumber(i - 1), index |-> i - 1,
         type |-> page_state.interactive_elements[i].type,
         text |-> page_state.interactive_elements[i].text,
         bounds |-> page_state.interactive_elements[i].bounds]]

(***************************************************************************)
(* Mac: src/mcp/mac/src/mac/__init__.py                                    *)
(***************************************************************************)
\* screenshot_in_bytes(None) raises
MacState(desktop_state, a) ==
    IF a.raised \/ a.value.kind = "None" THEN Raise("RuntimeError")
    ELSE Ok([tree_state |-> desktop_state, screenshot |-> a.value])

MacStateOf(desktop_state, e, vision) ==
    IF ~vision THEN Ok([tree_state |-> desktop_state, screenshot |-> NoneImage])
    ELSE MacState(desktop_state,
                  MacPageTree_annotated_screenshot(desktop_state.interactive_elements, e))

\* MacDevice.get_state(use_vision)
MacDevice_get_state(d, e, vision) ==
    MacStateOf(MacPageTree_get_state(d, e), e, vision)

MacDevice_fetches(d, e, vision) ==
    [hierarchy |-> 1,
     screenshot |->
        IF ~vision THEN 0
        ELSE IF e.screenshot_raises THEN 2
        ELSE IF MacPageTree_annotated_screenshot(
                    MacPageTree_get_state(d, e).interactive_elements, e).value.kind = "plain"
        THEN 2 ELSE 1]

(***************************************************************************)
(* Inputs: Android dumps.                                                  *)
(***************************************************************************)
WellFormedBounds ==
    { <<"[","0",",","0","]","[","5","0",",","5","0","]">>,
      <<"[","1","0",",","2","0","]","[","1","1","0",",","2","2","0","]">> }

\* bounds attributes the regex rejects or that are degenerate
Garbage == <<"g","a","r","b","a","g","e">>
NegativeBounds == <<"[","-","5",",","1","0","]","[","2","0",",","3","0","]">>
ZeroWidthBounds == <<"[","5",",","5","]","[","5",",","9","]">>
InvertedBounds == <<"[","1","0",",","1","0","]","[","5",",","5","]">>

AndroidNode(vis, en, text, desc, class, bounds) ==
    ("visible-to-user" :> vis) @@ ("enabled" :> en) @@ ("text" :> text) @@
    ("content-desc" :> desc) @@ ("class" :> class) @@ ("bounds" :> bounds)

\* the same node without a bounds attribute
WithoutBounds(n) == [k \in DOMAIN n \ {"bounds"} |-> n[k]]

AndroidNodes ==
    { AndroidNode("true", "true", t, "", c, b) :
        t \in {"", "OK"},
        c \in {"android.widget.Button", "android.view.View"},
        b \in WellFormedBounds }
    \cup
    { AndroidNode("true", "true", "OK", "", "android.widget.Button", b) :
        b \in {Garbage, NegativeBounds, ZeroWidthBounds, InvertedBounds} }
    \cup
    { WithoutBounds(AndroidNode("true", "true", "OK", "", "android.widget.Button", Garbage)),
      AndroidNode("false", "true", "OK", "", "android.widget.Button",
                  <<"[","0",",","0","]","[","5","0",",","5","0","]">>),
      AndroidNode("true", "false", "OK", "", "android.widget.Button",
                  <<"[","0",",","0","]","[","5","0",",","5","0","]">>),
      AndroidNode("true", "true", "", "Back", "android.view.View",
                  <<"[","0",",","0","]","[","5","0",",","5","0","]">>) }

AndroidDumps == { [nodes |-> ns] : ns \in SeqsUpTo(AndroidNodes, MaxAndroidNodes) }

(***************************************************************************)
(* Inputs: iOS JSON trees.                                                 *)
(***************************************************************************)
IOSNode(type, name, label, frame, enabled, visible, children) ==
    [identifier |-> "", name |-> name, label |-> label, type |-> type,
     frame |-> frame, enabled |-> enabled, visible |-> visible,
     children |-> children]

\* the nodes of the trees, without their children
IOSNodeKinds ==
    { IOSNode("XCUIElementTypeButton", "OK", "OK", Frame(10, 20, 100, 100), TRUE, TRUE, << >>),
      IOSNode("XCUIElementTypeButton", "Go", "", Frame(5, 5, 10, 10), TRUE, TRUE, << >>),
      IOSNode("XCUIElementTypeStaticText", "", "", Frame(1, 2, 7, 9), TRUE, TRUE, << >>),
      IOSNode("XCUIElementTypeButton", "Z", "", Frame(5, 5, 0, 10), TRUE, TRUE, << >>),
      IOSNode("XCUIElementTypeButton", "", "N", Frame(-3, -4, -7, 9), TRUE, TRUE, << >>),
      IOSNode("XCUIElementTypeButton", "M", "", ListFrame, TRUE, TRUE, << >>),
      IOSNode("XCUIElementTypeButton", "", "D", Frame(5, 5, 10, 10), FALSE, TRUE, << >>),
      IOSNode("XCUIElementTypeButton", "Off", "", Frame(-40, -40, 7, 9), TRUE, TRUE, << >>) }

\* ordered trees with exactly n nodes, and sequences of trees with m nodes
RECURSIVE IOSTreesOfSize(_)
RECURSIVE IOSForestsOfSize(_)
IOSForestsOfSize(m) ==
    IF m = 0 THEN { << >> }
    ELSE UNION { { <<t>> \o f : t \in IOSTreesOfSize(j), f \in IOSForestsOfSize(m - j) } :
                 j \in 1..m }
IOSTreesOfSize(n) ==
    { [k EXCEPT !.children = c] : k \in IOSNodeKinds, c \in IOSForestsOfSize(n - 1) }

IOSDumps ==
    { [source |-> t, window_size |-> <<390, 844>>, orientation |-> "LANDSCAPE"] :
        t \in UNION { IOSTreesOfSize(n) : n \in 1..MaxIOSNodes } }

(***************************************************************************)
(* Inputs: Chrome DOM snapshots and Mac AppleScript results.               *)
(***************************************************************************)
WebElem(tag, attrs, x, y, width, height, displayed, enabled, raises) ==
    [tag_name |-> tag, text |-> "", attrs |-> attrs,
     location |-> [x |-> x, y |-> y], size |-> [width |-> width, height |-> height],
     displayed |-> displayed, enabled |-> enabled, raises |-> raises]

NoAttrs == [a \in {} |-> ""]

ChromeElements ==
    { WebElem("button", [id |-> "go"], 10, 20, 30, 40, TRUE, TRUE, FALSE),
      WebElem("div", NoAttrs, 0, 0, 100, 100, TRUE, TRUE, FALSE),
      WebElem("button", NoAttrs, 90, 90, 30, 40, TRUE, TRUE, FALSE),
      WebElem("button", NoAttrs, 10, 10, 0, 0, TRUE, TRUE, FALSE),
      WebElem("a", NoAttrs, 5, 6, -7, 9, TRUE, TRUE, FALSE),
      WebElem("button", NoAttrs, 1, 2, 7, 9, TRUE, TRUE, TRUE),
      WebElem("div", [onclick |-> "f()"], 1, 2, 7, 9, TRUE, TRUE, FALSE),
      WebElem("div", [role |-> "button"], 1, 2, 7, 9, TRUE, TRUE, FALSE),
      WebElem("button", NoAttrs, 10, 20, 3, 40, TRUE, TRUE, FALSE),
      WebElem("button", NoAttrs, 10, 20, 30, 40, FALSE, TRUE, FALSE),
      WebElem("button", NoAttrs, 200, 200, 30, 40, TRUE, TRUE, FALSE) }

ChromeDumps ==
    { [web_elements |-> es, screenshot |-> [width |-> 100, height |-> 100],
       page_info |-> [title |-> "T", url |-> "http://x"]] :
        es \in SeqsUpTo(ChromeElements, MaxChromeElements) }

\* lists of names an osascript query returns: n names, the first of them
\* possibly blank or "missing value"
MacNameLists(max) ==
    { [i \in 1..n |-> IF i = 1 THEN first ELSE "item"] :
        n \in 0..max, first \in {"item", "missing value"} }

MacDumps ==
    { [desktop |-> dt, dock |-> dk, menu |-> mn, focused_app |-> "Finder", window |-> w] :
        dt \in MacNameLists(MaxMacItems), dk \in MacNameLists(MaxMacItems),
        mn \in MacNameLists(1), w \in BOOLEAN }
    \cup
    { [desktop |-> dt, dock |-> << >>, menu |-> <<"item">>, focused_app |-> "Unknown",
       window |-> TRUE] : dt \in MacNameLists(1) }

(***************************************************************************)
(* Driver behaviour.                                                       *)
(***************************************************************************)
EnvOk == [hierarchy_raises |-> FALSE, screenshot_raises |-> FALSE,
          render_raises |-> FALSE, window |-> "valid"]

\* what Chrome's driver answers when get_state checks the current window
WindowCases == {"valid", "switch", "open", "none", "recover", "dead"}

\* the session the device object holds when get_state is first called; the
\* iOS device has none yet, and has the cached one at the second call
SessionsOf(p) ==
    CASE p = "android" -> { [id |-> "device", window |-> "None"] }
      [] p = "ios" -> { [id |-> "None", window |-> "None"] }
      [] p = "chrome" -> { [id |-> "driver1", window |-> "window1"] }
      [] p = "mac" -> { [id |-> "desktop", window |-> "None"] }

\* without vision no screenshot is taken and nothing is drawn
Envs(vision) ==
    IF vision
    THEN { [EnvOk EXCEPT !.screenshot_raises = s, !.render_raises = r] :
             s \in BOOLEAN, r \in BOOLEAN }
    ELSE { EnvOk }

EnvHierarchyFails == [EnvOk EXCEPT !.hierarchy_raises = TRUE]

(***************************************************************************)
(* The specification of get_state.                                         *)
(***************************************************************************)
Platforms == {"android", "ios", "chrome", "mac"}

DumpsOf(p) ==
    CASE p = "android" -> AndroidDumps
      [] p = "ios" -> IOSDumps
      [] p = "chrome" -> ChromeDumps
      [] p = "mac" -> MacDumps

\* the dump is not read when the hierarchy fetch throws
EmptyDumpOf(p) ==
    CASE p = "android" -> [nodes |-> << >>]
      [] p = "ios" -> [source |-> IOSNode("XCUIElementTypeOther", "", "", Frame(0, 0, 0, 0), TRUE, TRUE, << >>),
                       window_size |-> <<390, 844>>, orientation |-> "LANDSCAPE"]
      [] p = "chrome" -> [web_elements |-> << >>, screenshot |-> [width |-> 100, height |-> 100],
                          page_info |-> [title |-> "T", url |-> "http://x"]]
      [] p = "mac" -> [desktop |-> << >>, dock |-> << >>, menu |-> << >>,
                       focused_app |-> "Unknown", window |-> FALSE]

Init ==
    /\ pc = "call"
    /\ platform \in Platforms
    /\ use_vision \in BOOLEAN
    /\ \/ /\ dump \in DumpsOf(platform)
          /\ env \in Envs(use_vision)
       \/ /\ dump = EmptyDumpOf(platform)
          /\ env = EnvHierarchyFails
       \/ /\ platform = "chrome"
          /\ dump \in DumpsOf(platform)
          /\ env \in { [EnvOk EXCEPT !.window = w] : w \in WindowCases }
    /\ state = NoState
    /\ fetches = NoFetch
    /\ session \in SessionsOf(platform)
    /\ timestamp = 0
    /\ previous = << >>
    /\ files = << >>

\* get_state can be called: for the first time, or once more on the same
\* device and the same dump after a call that returned
Callable == pc = "call" \/ (pc = "returned" /\ previous = << >>)

Return(r, f) ==
    /\ pc' = IF r.raised THEN "raised" ELSE "returned"
    /\ state' = IF r.raised THEN NoState ELSE r.value
    /\ fetches' = f
    /\ timestamp' = timestamp + 1
    /\ previous' = IF pc = "call" THEN << >>
                   ELSE << [tree_state |-> state.tree_state, timestamp |-> timestamp] >>
    /\ UNCHANGED <<platform, dump, use_vision, env, files>>

AndroidGetState ==
    /\ Callable
    /\ platform = "android"
    /\ Return(Mobile_get_state(dump, env, use_vision),
              Mobile_fetches(dump, env, use_vision))
    /\ UNCHANGED session

IOSGetState ==
    /\ Callable
    /\ platform = "ios"
    /\ Return(IOSDevice_get_state(dump, env, use_vision),
              IOSDevice_fetches(dump, env, use_vision))
    /\ session' = IOSDevice_get_session(session)

ChromeGetState ==
    /\ Callable
    /\ platform = "chrome"
    /\ Return(ChromeBrowser_get_state_checked(
                  ChromeBrowser_ensure_valid_window(session, env), dump, env, use_vision),
              ChromeBrowser_fetches_checked(
                  ChromeBrowser_ensure_valid_window(session, env), dump, env, use_vision))
    /\ session' = ChromeBrowser_ensure_valid_window(session, env).session

MacGetState ==
    /\ Callable
    /\ platform = "mac"
    /\ Return(MacDevice_get_state(dump, env, use_vision),
              MacDevice_fetches(dump, env, use_vision))
    /\ UNCHANGED session

Next ==
    \/ AndroidGetState
    \/ IOSGetState
    \/ ChromeGetState
    \/ MacGetState

Spec == Init /\ [][Next]_vars

(***************************************************************************)
(* The specification of the bounds parser: Init draws a bounding box,      *)
(* the action formats it and parses it back.                               *)
(***************************************************************************)
Coords == (0..MaxCoord) \cup {110}

InitParse ==
    /\ pc = "call"
    /\ platform = "android.utils"
    /\ dump \in [x1 : Coords, y1 : Coords, x2 : Coords, y2 : Coords]
    /\ use_vision = FALSE
    /\ env = EnvOk
    /\ state = NoState
    /\ fetches = NoFetch
    /\ session = [id |-> "None", window |-> "None"]
    /\ timestamp = 0
    /\ previous = << >>
    /\ files = << >>

ExtractCordinates ==
    /\ pc = "call"
    /\ platform = "android.utils"
    /\ pc' = "returned"
    /\ state' = [bounds |-> BoundingBox_to_string(<<dump.x1, dump.y1, dump.x2, dump.y2>>),
                 cordinates |-> extract_cordinates(
                     BoundingBox_to_string(<<dump.x1, dump.y1, dump.x2, dump.y2>>))]
    /\ UNCHANGED <<platform, dump, use_vision, env, fetches, session, timestamp,
                   previous, files>>

NextParse ==
    \/ ExtractCordinates

SpecParse == InitParse /\ [][NextParse]_vars

(***************************************************************************)
(* FileService: src/services/file_service.py                               *)
(*                                                                         *)
(* A text is a sequence of pieces: a white-space character, a run of len   *)
(* other characters that spells no title, or a title (a section title or   *)
(* the PRD heading) written as in the source, in upper or in lower case.   *)
(***************************************************************************)
\* config.constants.TRD_SECTIONS
TRD_SECTIONS ==
    << "Architecture Overview", "UI/UX Specifications", "API Requirements",
       "Database Schema", "Security Requirements", "Performance Requirements",
       "Testing Strategy" >>

PRDHeading == "# Product Requirements Document"

\* the number of characters of a title
TitleLength(name) ==
    CASE name = "Architecture Overview" -> 21
      [] name = "UI/UX Specifications" -> 20
      [] name = "API Requirements" -> 16
      [] name = "Database Schema" -> 15
      [] name = "Security Requirements" -> 21
      [] name = "Performance Requirements" -> 24
      [] name = "Testing Strategy" -> 16
      [] name = PRDHeading -> 31

Space == [kind |-> "space", name |-> "", case |-> "asis", len |-> 1]
Text(n) == [kind |-> "text", name |-> "", case |-> "asis", len |-> n]
Title(name, case) == [kind |-> "title", name |-> name, case |-> case, len |-> TitleLength(name)]

\* str.lower(), str.strip(), len(str), and the substring test  t in text
\* for a title t
lower(text) == [i \in DOMAIN text |-> [text[i] EXCEPT !.case = "lower"]]

RECURSIVE lstrip(_)
lstrip(text) ==
    IF text # << >> /\ Head(text).kind = "space" THEN lstrip(Tail(text)) ELSE text

RECURSIVE rstrip(_)
rstrip(text) ==
    IF text # << >> /\ text[Len(text)].kind = "space"
    THEN rstrip(SubSeq(text, 1, Len(text) - 1))
    ELSE text

strip(text) == rstrip(lstrip(text))

RECURSIVE len(_)
len(text) == IF text = << >> THEN 0 ELSE Head(text).len + len(Tail(text))

Contains(text, title) == \E i \in DOMAIN text : text[i] = title

\* text.startswith(title)
startswith(text, title) == text # << >> /\ Head(text) = title

\* the value None, and a path: a directory and the parts of the file name
None == [dir |-> "None", name |-> << >>]
Path(dir, name) == [dir |-> dir, name |-> name]

\* lines 210-211 and 343-344: append '.md' unless the name ends with it
EnsureMd(filename) ==
    IF filename[Len(filename)] \in {".md", ".MD"} THEN filename
    ELSE Append(filename, ".md")

\* lines 206-208 and 337-340: the name generated when none is given
AutoName(prefix) == << prefix, "2026-11-05_08-30", ".md" >>

\* lines 223-227: the metadata header
PRDHeader ==
    << Title(PRDHeading, "asis"), Space, Text(47), Space, Space >>

\* writing text to the file at path: open or create (the file is there and
\* empty), then write
Written(fs, path, text, e) ==
    IF e.create_raises THEN fs
    ELSE IF e.write_raises THEN [p \in (DOMAIN fs) \cup {path} |-> IF p = path THEN << >> ELSE fs[p]]
    ELSE [p \in (DOMAIN fs) \cup {path} |-> IF p = path THEN text ELSE fs[p]]

\* lines 222-227: the text written, with the metadata header put before a
\* content that does not begin with the heading
PRDTextWrittenAsGiven(prd_content) == prd_content
PRDTextWritten(prd_content) ==
    IF startswith(strip(prd_content), Title(PRDHeading, "asis")) THEN prd_content
    ELSE PRDHeader \o prd_content

PRDPath(e) == Path("tmp", << "PRD_", e.random, ".md" >>)

\* FileService.create_prd_download_file(prd_content, filename): the value
\* returned; the except clause returns None
create_prd_download_file(prd_content, filename, e) ==
    IF prd_content = << >> \/ strip(prd_content) = << >> THEN Ok(None)
    ELSE IF e.create_raises \/ e.write_raises THEN Ok(None)
    ELSE Ok(PRDPath(e))

\* the files after create_prd_download_file
PRDFiles(fs, prd_content, e) ==
    IF prd_content = << >> \/ strip(prd_content) = << >> THEN fs
    ELSE Written(fs, PRDPath(e), PRDTextWritten(prd_content), e)

\* FileService.create_trd_download_file(trd_content, filename)
TRDPath(filename) ==
    Path("tmp", EnsureMd(IF filename = << >> THEN AutoName("TRD_") ELSE filename))

create_trd_download_file(trd_content, filename, e) ==
    IF trd_content = << >> \/ strip(trd_content) = << >> THEN Ok(None)
    ELSE IF e.create_raises \/ e.write_raises THEN Ok(None)
    ELSE Ok(TRDPath(filename))

TRDFiles(fs, trd_content, filename, e) ==
    IF trd_content = << >> \/ strip(trd_content) = << >> THEN fs
    ELSE Written(fs, TRDPath(filename), trd_content, e)

MinTrdLength == 500

\* FileService.validate_trd_content(trd_content): (is_valid, message); the
\* message is its text and the sections it lists
Message(text, sections) == [text |-> text, sections |-> sections]

missing_sections(trd_content) ==
    SelectSeq(TRD_SECTIONS, LAMBDA section :
        ~Contains(lower(trd_content), Title(section, "lower")))

validate_trd_contentLengthFirst(trd_content) ==
    IF trd_content = << >> \/ strip(trd_content) = << >>
    THEN << FALSE, Message("TRD content is empty", << >>) >>
    ELSE IF len(strip(trd_content)) < MinTrdLength
    THEN << FALSE, Message("TRD content appears to be too short", << >>) >>
    ELSE IF missing_sections(trd_content) # << >>
    THEN << FALSE, Message("Missing required sections: ", missing_sections(trd_content)) >>
    ELSE << TRUE, Message("TRD content is valid", << >>) >>
validate_trd_content(trd_content) ==
    IF trd_content = << >> \/ strip(trd_content) = << >>
    THEN << FALSE, Message("TRD content is empty", << >>) >>
    ELSE IF missing_sections(trd_content) # << >>
    THEN << FALSE, Message("Missing required sections: ", missing_sections(trd_content)) >>
    ELSE IF len(strip(trd_content)) < MinTrdLength
    THEN << FALSE, Message("TRD content appears to be too short", << >>) >>
    ELSE << TRUE, Message("TRD content is valid", << >>) >>

(***************************************************************************)
(* Inputs and specification of the FileService operations.                 *)
(***************************************************************************)
\* titles separated by line ends
RECURSIVE Lines(_)
Lines(titles) ==
    IF titles = << >> THEN << >>
    ELSE IF Len(titles) = 1 THEN titles
    ELSE << Head(titles), Space >> \o Lines(Tail(titles))

Reverse(seq) == [i \in DOMAIN seq |-> seq[Len(seq) + 1 - i]]

FillerLengths == {0, 359, 360, 600}

\* TRD texts: any set of section titles, in the order of TRD_SECTIONS or
\* reversed, in one of the cases, followed by filler, padded or not
TRDTexts ==
    { (IF pad THEN << Space >> ELSE << >>)
      \o Lines([i \in 1..Len(order) |-> Title(order[i], case)])
      \o (IF filler = 0 THEN << >> ELSE << Space, Text(filler) >>)
      \o (IF pad THEN << Space, Space >> ELSE << >>) :
        order \in UNION { { SelectSeq(TRD_SECTIONS, LAMBDA t : t \in S),
                            Reverse(SelectSeq(TRD_SECTIONS, LAMBDA t : t \in S)) } :
                          S \in SUBSET {TRD_SECTIONS[i] : i \in DOMAIN TRD_SECTIONS} },
        case \in {"asis", "upper"},
        filler \in FillerLengths,
        pad \in BOOLEAN }

\* texts handed to the download functions
DownloadTexts ==
    { << >>, << Space >>, << Space, Space >>,
      << Text(40) >>,
      << Space, Text(40), Space >>,
      << Title(PRDHeading, "asis"), Space, Text(40) >>,
      << Space, Title(PRDHeading, "asis"), Space, Text(40), Space >>,
      << Title(PRDHeading, "upper"), Space, Text(40) >>,
      << Text(40), Space, Title(PRDHeading, "asis") >>,
      << Title("Architecture Overview", "asis"), Space, Text(600) >> }

Filenames == { << >>, << "custom_prd_test", ".md" >>, << "notes" >>, << "REPORT", ".MD" >> }

FileEnvs ==
    [create_raises : BOOLEAN, write_raises : BOOLEAN, random : {"k3x9q_ab", "zz01abcd"}]

\* files that exist before the call
FilesBefore ==
    { << >>, [p \in {Path("tmp", << "notes", ".md" >>)} |-> << Text(40) >>] }

Operations == {"create_prd_download_file", "create_trd_download_file", "validate_trd_content"}

InitFiles ==
    /\ pc = "call"
    /\ platform \in Operations
    /\ \/ /\ platform = "validate_trd_content"
          /\ dump \in [content : TRDTexts \cup DownloadTexts, filename : {<< >>}]
          /\ env = [create_raises |-> FALSE, write_raises |-> FALSE, random |-> "k3x9q_ab"]
          /\ files = << >>
       \/ /\ platform # "validate_trd_content"
          /\ dump \in [content : DownloadTexts, filename : Filenames]
          /\ env \in FileEnvs
          /\ files \in FilesBefore
    /\ use_vision = FALSE
    /\ state = NoState
    /\ fetches = NoFetch
    /\ session = [id |-> "None", window |-> "None"]
    /\ timestamp = 0
    /\ previous = << >>

\* what a FileService call leaves: its result in state, the files written
FileReturn(r, fs) ==
    /\ pc' = IF r.raised THEN "raised" ELSE "returned"
    /\ state' = [result |-> r.value]
    /\ files' = fs
    /\ UNCHANGED <<platform, dump, use_vision, env, fetches, session, timestamp, previous>>

CreatePrdDownloadFile ==
    /\ pc = "call"
    /\ platform = "create_prd_download_file"
    /\ FileReturn(create_prd_download_file(dump.content, dump.filename, env),
                  PRDFiles(files, dump.content, env))

CreateTrdDownloadFile ==
    /\ pc = "call"
    /\ platform = "create_trd_download_file"
    /\ FileReturn(create_trd_download_file(dump.content, dump.filename, env),
                  TRDFiles(files, dump.content, dump.filename, env))

ValidateTrdContent ==
    /\ pc = "call"
    /\ platform = "validate_trd_content"
    /\ FileReturn(Ok(validate_trd_content(dump.content)), files)

NextFiles ==
    \/ CreatePrdDownloadFile
    \/ CreateTrdDownloadFile
    \/ ValidateTrdContent

SpecFiles == InitFiles /\ [][NextFiles]_vars

(***************************************************************************)
(* IOSDevice._connect: src/mcp/ios/src/ios/__init__.py                     *)
(*                                                                         *)
(* dump holds what the device answers in each attempt: whether            *)
(* _check_wda_availability() finds WebDriverAgent, whether client.status() *)
(* succeeds, and whether _attempt_wda_setup() succeeds. state holds the    *)
(* loop variable and counts what _connect has done.                        *)
(***************************************************************************)
connection_attempts == 3

Attempts == 0..(connection_attempts - 1)

\* line 64: if self.auto_setup and attempt == 0
SetupAllowedInEveryAttempt(auto_setup, attempt) == auto_setup
SetupAllowed(auto_setup, attempt) == auto_setup /\ attempt = 0

InitConnect ==
    /\ pc = "attempt"
    /\ platform = "ios._connect"
    /\ dump \in [wda_available : [Attempts -> BOOLEAN],
                 status_ok : [Attempts -> BOOLEAN],
                 setup_ok : BOOLEAN]
    /\ env \in [auto_setup : BOOLEAN]
    /\ state = [attempt |-> 0, attempts |-> 0, setups |-> 0, status_calls |-> 0,
                failed |-> 0]
    /\ use_vision = FALSE
    /\ fetches = NoFetch
    /\ session = [id |-> "None", window |-> "None"]
    /\ timestamp = 0
    /\ previous = << >>
    /\ files = << >>

ConnectUnchanged ==
    UNCHANGED <<platform, dump, use_vision, env, fetches, session, timestamp,
                previous, files>>

\* lines 57-72: the attempt begins; WebDriverAgent is looked for
CheckWdaAvailability ==
    /\ pc = "attempt"
    /\ state' = [state EXCEPT !.attempts = @ + 1]
    /\ pc' = IF dump.wda_available[state.attempt] THEN "client"
             ELSE IF SetupAllowed(env.auto_setup, state.attempt) THEN "setup"
             ELSE "except"
    /\ ConnectUnchanged

\* lines 66-70: _attempt_wda_setup()
AttemptWdaSetup ==
    /\ pc = "setup"
    /\ state' = [state EXCEPT !.setups = @ + 1]
    /\ pc' = IF dump.setup_ok THEN "client" ELSE "except"
    /\ ConnectUnchanged

\* lines 75-97: the client is created, client.status() is called, return
ClientStatus ==
    /\ pc = "client"
    /\ state' = [state EXCEPT !.status_calls = @ + 1]
    /\ pc' = IF dump.status_ok[state.attempt] THEN "returned" ELSE "except"
    /\ ConnectUnchanged

\* lines 99-110: the except clause: sleep and try again, or raise
\* ConnectionError after the last attempt
ConnectExcept ==
    /\ pc = "except"
    /\ IF state.attempt < connection_attempts - 1
       THEN /\ state' = [state EXCEPT !.attempt = @ + 1, !.failed = @ + 1]
            /\ pc' = "attempt"
       ELSE /\ state' = [state EXCEPT !.failed = @ + 1]
            /\ pc' = "raised"
    /\ ConnectUnchanged

NextConnect ==
    \/ CheckWdaAvailability
    \/ AttemptWdaSetup
    \/ ClientStatus
    \/ ConnectExcept

\* _connect is sequential code whose waits are bounded (sleep, timeouts):
\* a step that can be taken is taken
SpecConnect == InitConnect /\ [][NextConnect]_vars /\ WF_vars(NextConnect)

(***************************************************************************)
(* Properties of get_state.                                                *)
(***************************************************************************)
Returned == pc = "returned"
Elements == state.tree_state.elements
Interactive == state.tree_state.interactive_elements
Overlay == state.screenshot
Range(f) == {f[i] : i \in DOMAIN f}

\* the interactive list the State tool prints for the returned state
PrintedList ==
    CASE platform = "android" -> Android_to_string(state.tree_state)
      [] platform = "ios" -> IOS_to_string(state.tree_state)
      [] platform = "chrome" -> Chrome_to_string(state.tree_state)
      [] platform = "mac" -> Mac_to_string(state.tree_state)

\* the corner box (x1, y1, x2, y2) of an element of the returned state
ElementBox(elem) ==
    CASE platform = "android" -> elem.bounding_box
      [] platform = "ios" ->
            << elem.frame.d.x, elem.frame.d.y,
               elem.frame.d.x + elem.frame.d.width, elem.frame.d.y + elem.frame.d.height >>
      [] platform = "chrome" ->
            << elem.location.x, elem.location.y,
               elem.location.x + elem.size.width, elem.location.y + elem.size.height >>
      [] platform = "mac" ->
            << elem.bounds.x, elem.bounds.y,
               elem.bounds.x + elem.bounds.width, elem.bounds.y + elem.bounds.height >>

\* the rectangle the renderer draws for an element: Android pads the image
DrawnBox(elem) ==
    IF platform = "android"
    THEN [k \in 1..4 |-> ElementBox(elem)[k] + padding]
    ELSE ElementBox(elem)

\* the elements that carry geometry: on iOS the frame of an element can be
\* an entry that is no mapping
Measured ==
    CASE platform = "android" -> Range(Interactive)
      [] platform = "ios" -> {e \in Range(Elements) : e.frame.kind = "dict"}
      [] platform = "chrome" -> Range(Elements)
      [] platform = "mac" -> Range(Interactive)

LabelConvention(i) == IF platform = "android" THEN i ELSE i + 1

\* C1: on every platform the number drawn on the box of element i is the
\* number printed for element i in the interactive list of to_string():
\* i on Android, i + 1 on iOS, Chrome and Mac.
LabelsMatchPrintedNumbers ==
    (Returned /\ use_vision) =>
        /\ \A b \in Range(Overlay.boxes) :
              /\ b.index + 1 \in DOMAIN Interactive
              /\ b.box = DrawnBox(Interactive[b.index + 1])
              /\ b.label = LabelConvention(b.index)
        /\ \A k \in DOMAIN PrintedList :
              /\ PrintedList[k].index = k - 1
              /\ PrintedList[k].number = LabelConvention(k - 1)
        /\ \A b \in Range(Overlay.boxes) : \A k \in DOMAIN PrintedList :
              PrintedList[k].index = b.index => PrintedList[k].number = b.label

LabelsDrawnAndPrinted ==
    /\ Returned /\ use_vision /\ platform = "ios"
    /\ Len(Overlay.boxes) >= 2
    /\ Len(PrintedList) >= 2
    /\ Overlay.boxes[2].label = 2
    /\ PrintedList[2].number = 2

\* the positions (1-based) of the interactive elements the renderer does
\* not skip
Drawable ==
    CASE platform = "android" -> DOMAIN Interactive
      [] platform = "ios" -> DOMAIN Interactive
      [] platform = "chrome" ->
            {i \in DOMAIN Interactive :
                /\ ElementBox(Interactive[i])[1] >= 0
                /\ ElementBox(Interactive[i])[2] >= 0
                /\ ElementBox(Interactive[i])[3] <= dump.screenshot.width
                /\ ElementBox(Interactive[i])[4] <= dump.screenshot.height}
      [] platform = "mac" ->
            {i \in DOMAIN Interactive :
                /\ i <= 20
                /\ Interactive[i].bounds.width > 0
                /\ Interactive[i].bounds.height > 0}

\* C2 (as amended): the boxes drawn are exactly those of the interactive
\* elements the renderer does not skip -- all of them on Android and iOS,
\* on Chrome those whose box lies within the screenshot, on Mac those among
\* the first 20 with a positive size -- each drawn once, and none when the
\* renderer falls back to the plain screenshot; never more than
\* len(interactive_elements).
BoxesDrawnAreTheUnskipped ==
    (Returned /\ use_vision) =>
        /\ Overlay.kind \in {"annotated", "plain"}
        /\ Overlay.kind = "annotated" =>
              /\ {b.index + 1 : b \in Range(Overlay.boxes)} = Drawable
              /\ Len(Overlay.boxes) = Cardinality(Drawable)
        /\ Overlay.kind = "plain" => Len(Overlay.boxes) = 0
        /\ Len(Overlay.boxes) <= Len(Interactive)

ChromeBoxSkipped ==
    /\ Returned /\ use_vision /\ platform = "chrome"
    /\ Overlay.kind = "annotated"
    /\ Len(Interactive) = 2
    /\ Len(Overlay.boxes) = 1
    /\ Overlay.boxes[1].label = 2

\* C2 as stated: the number of boxes drawn equals len(interactive_elements).
BoxesDrawnEqualInteractive ==
    (Returned /\ use_vision /\ Overlay.kind = "annotated") =>
        Len(Overlay.boxes) = Len(Interactive)

\* the positions of the elements flagged interactive, and the k-th of them
InteractivePositions == {i \in DOMAIN Elements : Elements[i].interactive}
KthPosition(k) ==
    CHOOSE i \in InteractivePositions :
        Cardinality({j \in InteractivePositions : j <= i}) = k

\* C3: in every iOS TreeState and Chrome PageState interactive_elements is
\* the subsequence of elements whose interactive flag is true, in the same
\* order: nothing added, dropped, duplicated or reordered.
InteractiveIsStableFilter ==
    (Returned /\ platform \in {"ios", "chrome"}) =>
        /\ Len(Interactive) = Cardinality(InteractivePositions)
        /\ \A k \in DOMAIN Interactive : Interactive[k] = Elements[KthPosition(k)]

FilterSkipsMiddleElement ==
    /\ Returned /\ platform = "ios"
    /\ Len(Elements) = 3
    /\ Elements[1].interactive /\ ~Elements[2].interactive /\ Elements[3].interactive
    /\ Elements[2].enabled /\ Elements[2].visible
    /\ Len(Interactive) = 2

\* the origins the nodes of an iOS tree have when every node adds its
\* relative offset to the absolute origin of its parent, in pre-order
RECURSIVE SummedOrigins(_, _, _)
RECURSIVE SummedOriginsOfAll(_, _, _)
SummedOriginsOfAll(children, px, py) ==
    IF children = << >> THEN << >>
    ELSE SummedOrigins(Head(children), px, py)
         \o SummedOriginsOfAll(Tail(children), px, py)
SummedOrigins(source, px, py) ==
    << << source.frame.d.x + px, source.frame.d.y + py >> >>
    \o SummedOriginsOfAll(source.children,
                          source.frame.d.x + px, source.frame.d.y + py)

\* every frame of the tree is a mapping
RECURSIVE AllFramesAreDicts(_)
AllFramesAreDicts(source) ==
    /\ source.frame.kind = "dict"
    /\ \A i \in DOMAIN source.children : AllFramesAreDicts(source.children[i])

\* C4: for an iOS tree of any depth the absolute origin of every node is
\* its relative (x, y) plus the absolute origin of its parent, the sum of
\* the offsets of the node and all its ancestors.
IOSOriginsSumAncestors ==
    (Returned /\ platform = "ios" /\ ~env.hierarchy_raises
        /\ AllFramesAreDicts(dump.source)) =>
        [i \in DOMAIN Elements |-> << Elements[i].frame.d.x, Elements[i].frame.d.y >>]
            = SummedOrigins(dump.source, 0, 0)

\* the 2-level tree: parent frame {10,20,100,100}, one child with the
\* relative frame {5,5,10,10}
TwoLevelTree ==
    /\ platform = "ios" /\ ~env.hierarchy_raises
    /\ dump.source.frame = Frame(10, 20, 100, 100)
    /\ Len(dump.source.children) = 1
    /\ dump.source.children[1].frame = Frame(5, 5, 10, 10)
    /\ dump.source.children[1].children = << >>

WellFormedCandidates ==
    SelectSeq(findall(dump.nodes),
              LAMBDA n : /\ IsCandidate(n)
                         /\ "bounds" \in DOMAIN n
                         /\ extract_cordinates(n["bounds"]) # << >>)

\* C6: an Android candidate node whose bounds do not match "[x1,y1][x2,y2]"
\* is left out, get_state does not raise, and the well-formed nodes are
\* returned in document order.
MalformedBoundsAreDropped ==
    (platform = "android" /\ pc # "call" /\ env = EnvOk) =>
        /\ Returned
        /\ [i \in DOMAIN Interactive |-> Interactive[i].bounding_box]
              = [i \in DOMAIN WellFormedCandidates |->
                    extract_cordinates(WellFormedCandidates[i]["bounds"])]

\* C7: extract_cordinates("[a,b][c,d]") is (a, b, c, d) for non-negative
\* integers a, b, c, d: parsing what BoundingBox.to_string() formats gives
\* the box back.
ParseFormatRoundTrip ==
    (platform = "android.utils" /\ Returned) =>
        state.cordinates = << dump.x1, dump.y1, dump.x2, dump.y2 >>

RoundTripOfManyDigits ==
    /\ platform = "android.utils" /\ Returned
    /\ state.bounds = << "[", "1", "0", ",", "0", "]", "[", "1", "1", "0", ",", "7", "]" >>
    /\ state.cordinates = << 10, 0, 110, 7 >>

\* C8: on every platform an element whose box has width 0 or height 0 is
\* never in interactive_elements.
NoDegenerateInteractive ==
    Returned =>
        \A e \in Range(Interactive) :
            /\ ElementBox(e)[3] # ElementBox(e)[1]
            /\ ElementBox(e)[4] # ElementBox(e)[2]

\* the center an element exposes
CenterOf(elem) ==
    CASE platform = "android" -> elem.coordinates
      [] platform = "ios" -> IOSElement_center(elem)
      [] platform = "chrome" -> WebElement_center(elem)

\* C9: on Android, iOS and Chrome the center of every element is
\* ((x1+x2)//2, (y1+y2)//2) of its box, with x2 = x + width and
\* y2 = y + height on iOS and Chrome, for odd and negative values too.
CenterIsFloorMidpoint ==
    (Returned /\ platform \in {"android", "ios", "chrome"}) =>
        \A e \in Measured :
            CenterOf(e) = << (ElementBox(e)[1] + ElementBox(e)[3]) \div 2,
                             (ElementBox(e)[2] + ElementBox(e)[4]) \div 2 >>

CenterOfOddNegativeBox ==
    /\ Returned /\ platform = "ios"
    /\ \E e \in Measured :
          /\ IOSElement_bounds(e) = << -3, -4, -7, 9 >>
          /\ IOSElement_center(e) = << -7, 0 >>

\* C10: every element of a returned state has x1 <= x2 and y1 <= y2 (on
\* iOS and Chrome: width >= 0 and height >= 0), whatever the raw dump.
BoxesAreOrdered ==
    Returned =>
        \A e \in Measured :
            /\ ElementBox(e)[1] <= ElementBox(e)[3]
            /\ ElementBox(e)[2] <= ElementBox(e)[4]

\* the visible, enabled nodes of the Android dump whose class is in the
\* interactive-class whitelist
WhitelistedNodes ==
    SelectSeq(findall(dump.nodes),
              LAMBDA n : Get(n, "class", "None") \in INTERACTIVE_CLASSES)

\* C11: Android get_state puts a node into interactive_elements only if its
\* class is in the interactive-class whitelist; a visible, enabled node
\* that merely has text or content-desc is left out.
OnlyWhitelistedClasses ==
    (Returned /\ platform = "android") =>
        [i \in DOMAIN Interactive |-> Interactive[i].name]
            = [i \in DOMAIN WhitelistedNodes |-> NodeName(WhitelistedNodes[i])]

\* the Android dump whose only candidate node is the button
\* class="android.widget.Button", text="OK", bounds="[0,0][50,50]"
OnlyTheOKButton ==
    /\ platform = "android" /\ ~env.hierarchy_raises
    /\ SelectSeq(findall(dump.nodes), IsCandidate)
          = << AndroidNode("true", "true", "OK", "", "android.widget.Button",
                           <<"[","0",",","0","]","[","5","0",",","5","0","]">>) >>

HierarchyFailureDegrades ==
    (pc # "call" /\ env.hierarchy_raises) =>
        /\ Returned
        /\ Interactive = << >>
        /\ platform \in {"ios", "chrome"} => Elements = << >>
        /\ platform = "ios" =>
              /\ state.tree_state.window_size = << 375, 667 >>
              /\ state.tree_state.orientation = "PORTRAIT"

\* the nodes of an iOS tree in pre-order, without those whose frame is no
\* mapping: (type, name, label) of each
RECURSIVE WellFormedPreorder(_)
RECURSIVE WellFormedPreorderOfAll(_)
WellFormedPreorderOfAll(children) ==
    IF children = << >> THEN << >>
    ELSE WellFormedPreorder(Head(children)) \o WellFormedPreorderOfAll(Tail(children))
WellFormedPreorder(source) ==
    (IF source.frame.kind = "dict"
     THEN << << source.type, source.name, source.label >> >>
     ELSE << >>)
    \o WellFormedPreorderOfAll(source.children)

\* what the returned state says of its elements, in order
ElementIdentities ==
    CASE platform = "ios" ->
            [i \in DOMAIN Elements |->
                << Elements[i].className, Elements[i].name, Elements[i].label >>]
      [] platform = "chrome" ->
            [i \in DOMAIN Elements |->
                << Elements[i].tag_name, Elements[i].attributes, Elements[i].location,
                   Elements[i].size, Elements[i].visible >>]

\* the Chrome elements whose properties can be read, in document order
ReadableWebElements ==
    [i \in DOMAIN SelectSeq(dump.web_elements, LAMBDA w : ~w.raises) |->
        << SelectSeq(dump.web_elements, LAMBDA w : ~w.raises)[i].tag_name,
           ChromeAttributes(SelectSeq(dump.web_elements, LAMBDA w : ~w.raises)[i]),
           SelectSeq(dump.web_elements, LAMBDA w : ~w.raises)[i].location,
           SelectSeq(dump.web_elements, LAMBDA w : ~w.raises)[i].size,
           SelectSeq(dump.web_elements, LAMBDA w : ~w.raises)[i].displayed >>]

\* C14: when one node's dump entry is malformed (iOS: its frame is no
\* mapping; Chrome: reading a property raises), exactly that node is left
\* out of elements; all other nodes, the children and later siblings of
\* the malformed node among them, appear in traversal order and get_state
\* does not fail.
OnlyMalformedNodesOmitted ==
    (pc # "call" /\ platform \in {"ios", "chrome"} /\ ~env.hierarchy_raises
        /\ ~use_vision) =>
        /\ Returned
        /\ platform = "ios" => ElementIdentities = WellFormedPreorder(dump.source)
        /\ platform = "chrome" => ElementIdentities = ReadableWebElements

\* a drawn rectangle lies entirely outside the screenshot: left of or above
\* the image on every platform, and right of or below it where the size of
\* the screenshot is known
EntirelyOutside(box) ==
    \/ box[3] < 0
    \/ box[4] < 0
    \/ /\ platform = "chrome"
       /\ \/ box[1] > dump.screenshot.width
          \/ box[2] > dump.screenshot.height

\* C15: annotated_screenshot given an interactive element whose scaled box
\* lies entirely outside the screenshot does not raise and draws neither
\* rectangle nor label for it, while every other element that is drawn
\* keeps its index label.
NothingDrawnOutsideTheImage ==
    (pc # "call" /\ use_vision /\ env = EnvOk /\ platform \in {"ios", "chrome", "mac"}) =>
        /\ Returned
        /\ Overlay.kind = "annotated"
        /\ \A b \in Range(Overlay.boxes) :
              /\ ~EntirelyOutside(b.box)
              /\ b.label = LabelConvention(b.index)

\* the renderer has at least one rectangle to draw for the dump
SomethingToDraw ==
    CASE platform = "android" ->
            /\ ~Tree_get_state(dump, env).raised
            /\ Tree_get_state(dump, env).value.interactive_elements # << >>
      [] platform = "ios" ->
            IOSDrawLoop(IOSTree_get_state(dump, env).interactive_elements, 0) # << >>
      [] platform = "chrome" ->
            ChromeDrawLoop(PageTree_get_state(dump, env).interactive_elements, 0,
                           dump.screenshot) # << >>
      [] platform = "mac" ->
            MacDrawLoop(MacPageTree_get_state(dump, env).interactive_elements, 0) # << >>

\* C16: an error while drawing annotations, after the screenshot was
\* fetched, makes annotated_screenshot return the plain screenshot;
\* get_state(use_vision=true) still succeeds with an image, on every
\* platform.
RenderErrorDegradesToPlain ==
    (pc # "call" /\ use_vision /\ env.render_raises /\ ~env.screenshot_raises
        /\ ~env.hierarchy_raises /\ SomethingToDraw) =>
        /\ Returned
        /\ Overlay.kind = "plain"

\* C17: each get_state(use_vision) call makes exactly one hierarchy fetch;
\* it makes no screenshot fetch, and returns screenshot None, when
\* use_vision is false, and exactly one screenshot fetch when use_vision is
\* true, on every path, the renderer's fallback path included.
OneFetchOfEachKind ==
    Returned =>
        /\ fetches.hierarchy = 1
        /\ fetches.screenshot = (IF use_vision THEN 1 ELSE 0)
        /\ ~use_vision => Overlay.kind = "None"

\* C18: a get_state call leaves the driver session as it was: no session
\* is created, the driver is neither quit nor re-initialised, and the
\* current window is not switched, even when Chrome's current window is
\* invalid.
SessionUntouched ==
    [][pc = "call" => session' = session]_vars

\* the web elements of the page whose properties can be read, in document
\* order: the ones _parse_elements makes an element of
ReadableDOM == SelectSeq(dump.web_elements, LAMBDA w : ~w.raises)

\* the acceptance rule stated for a DOM element: its tag, its type
\* attribute, an onclick attribute, or its role attribute
AcceptedByTagTypeOnclickRole(w) ==
    \/ w.tag_name \in interactive_tags
    \/ Get(w.attrs, "type", "") \in ChromeInputTypes
    \/ Get(w.attrs, "onclick", "") # ""
    \/ Get(w.attrs, "role", "") \in {"button", "link", "menuitem", "tab", "option"}

\* C19: in the Chrome page state, a visible, enabled element of size at
\* least 5x5 is interactive exactly when its tag is an interactive tag, or
\* its type attribute an interactive input type, or it carries onclick, or
\* its role is button, link, menuitem, tab or option; a <div> with only
\* onclick, or only role="button", is in interactive_elements.
ChromeInteractiveIffTagTypeOnclickRole ==
    (Returned /\ platform = "chrome" /\ ~env.hierarchy_raises) =>
        /\ Len(Elements) = Len(ReadableDOM)
        /\ \A i \in DOMAIN ReadableDOM :
              ( /\ ReadableDOM[i].displayed /\ ReadableDOM[i].enabled
                /\ ReadableDOM[i].size.width >= 5 /\ ReadableDOM[i].size.height >= 5 )
              => /\ Elements[i].interactive <=> AcceptedByTagTypeOnclickRole(ReadableDOM[i])
                 /\ Elements[i].interactive <=> (Elements[i] \in Range(Interactive))

\* the width and height of an element of the returned iOS or Chrome state
SizeOf(elem) ==
    IF platform = "ios" THEN << elem.frame.d.width, elem.frame.d.height >>
    ELSE << elem.size.width, elem.size.height >>

MinimumInteractiveSize ==
    IF platform = "ios" THEN << MIN_INTERACTIVE_SIZE.width, MIN_INTERACTIVE_SIZE.height >>
    ELSE << ChromeMinSize, ChromeMinSize >>

\* C20: on iOS and Chrome an element whose width or height is below the
\* platform's minimum interactive size (iOS 10x10, Chrome 5x5) is never
\* marked interactive in the returned state, whatever its type.
NoInteractiveBelowMinimumSize ==
    (Returned /\ platform \in {"ios", "chrome"}) =>
        \A elem \in Measured :
            ( \/ SizeOf(elem)[1] < MinimumInteractiveSize[1]
              \/ SizeOf(elem)[2] < MinimumInteractiveSize[2] )
            => /\ ~elem.interactive
               /\ elem \notin Range(Interactive)

\* the nodes of an Android dump that are visible to the user and enabled
ShownAndEnabled(nodes) ==
    SelectSeq(nodes, LAMBDA n : /\ "visible-to-user" \in DOMAIN n
                                /\ n["visible-to-user"] = "true"
                                /\ "enabled" \in DOMAIN n
                                /\ n["enabled"] = "true")

NodeIdentity(node) == << node.type, node.name, node.label, node.enabled >>
IdentityOfElement(elem) == << elem.className, elem.name, elem.label, elem.enabled >>

\* the nodes of a tree in pre-order: the node, then the subtrees of its
\* children in the order of the children list
RECURSIVE Preorder(_)
RECURSIVE PreorderOfAll(_)
PreorderOfAll(children) ==
    IF children = << >> THEN << >>
    ELSE Preorder(Head(children)) \o PreorderOfAll(Tail(children))
Preorder(source) == << NodeIdentity(source) >> \o PreorderOfAll(source.children)

\* a is b with some entries left out, the others in the same order
RECURSIVE IsSubsequence(_, _)
IsSubsequence(a, b) ==
    IF a = << >> THEN TRUE
    ELSE IF b = << >> THEN FALSE
    ELSE IF Head(a) = Head(b) THEN IsSubsequence(Tail(a), Tail(b))
    ELSE IsSubsequence(a, Tail(b))

WriteSucceeds == ~env.create_raises /\ ~env.write_raises
DownloadCall == platform \in {"create_prd_download_file", "create_trd_download_file"}
IsMarkdownPath(path) ==
    /\ path # None
    /\ path \in DOMAIN files
    /\ path.name[Len(path.name)] = ".md"

\* C24 (as claimed): create_prd_download_file(content) and
\* create_trd_download_file(content) with any non-empty content return the
\* path of an existing .md file whose text is exactly the content.
DownloadFileHoldsExactlyTheContent ==
    (Returned /\ DownloadCall /\ WriteSucceeds
        /\ dump.filename = << >> /\ dump.content # << >>) =>
        /\ IsMarkdownPath(state.result)
        /\ files[state.result] = dump.content

\* C24 (as amended): with a content that is not blank and a write that
\* succeeds, both return the path of an existing .md file; the TRD file
\* holds exactly the content; the PRD file holds exactly the content when
\* the stripped content begins with "# Product Requirements Document", and
\* otherwise the metadata header followed by the content. Blank content
\* (empty or white space only) returns None.
DownloadFileHoldsContentAfterHeader ==
    (Returned /\ DownloadCall /\ WriteSucceeds /\ dump.filename = << >>) =>
        IF \A i \in DOMAIN dump.content : dump.content[i].kind = "space"
        THEN state.result = None
        ELSE /\ IsMarkdownPath(state.result)
             /\ platform = "create_trd_download_file" =>
                   files[state.result] = dump.content
             /\ platform = "create_prd_download_file" =>
                   files[state.result] =
                       IF strip(dump.content)[1] = Title(PRDHeading, "asis")
                       THEN dump.content
                       ELSE PRDHeader \o dump.content

PRDWrittenBehindHeader ==
    /\ Returned /\ platform = "create_prd_download_file" /\ WriteSucceeds
    /\ dump.filename = << >>
    /\ dump.content = << Space, Text(40), Space >>
    /\ state.result \in DOMAIN files
    /\ Len(files[state.result]) = Len(dump.content) + 5

\* the parts of name spell filename somewhere
NameContains(name, filename) ==
    \E k \in 0..(Len(name) - Len(filename)) :
        \A i \in DOMAIN filename : name[k + i] = filename[i]

\* C25: create_prd_download_file(content, filename=F) returns a path that
\* contains the custom file name F, and when writing the file fails with a
\* permission error the exception reaches the caller.
CustomNameInPathAndWriteErrorRaised ==
    (pc # "call" /\ platform = "create_prd_download_file"
        /\ strip(dump.content) # << >>) =>
        /\ (WriteSucceeds /\ dump.filename # << >>) =>
              /\ Returned
              /\ state.result # None
              /\ NameContains(state.result.name, dump.filename)
        /\ ~WriteSucceeds => pc = "raised"

\* the TRD_SECTIONS titles a text does not spell in any case, in the order
\* of TRD_SECTIONS
TitlesNotIn(text) ==
    SelectSeq(TRD_SECTIONS, LAMBDA t :
        ~\E i \in DOMAIN text : text[i].kind = "title" /\ text[i].name = t)

\* C26: validate_trd_content checks in a fixed order and reports the first
\* failure: blank content gives (False, "TRD content is empty"); else
\* content missing a TRD_SECTIONS title (in any case) gives (False,
\* "Missing required sections: ...") listing exactly the missing ones in
\* TRD_SECTIONS order; else content of stripped length < 500 gives (False,
\* "TRD content appears to be too short"); else (True, "TRD content is
\* valid").
ValidateTrdReportsFirstFailure ==
    (Returned /\ platform = "validate_trd_content") =>
        state.result =
            IF \A i \in DOMAIN dump.content : dump.content[i].kind = "space"
            THEN << FALSE, [text |-> "TRD content is empty", sections |-> << >>] >>
            ELSE IF TitlesNotIn(dump.content) # << >>
            THEN << FALSE, [text |-> "Missing required sections: ",
                            sections |-> TitlesNotIn(dump.content)] >>
            ELSE IF len(strip(dump.content)) < 500
            THEN << FALSE, [text |-> "TRD content appears to be too short",
                            sections |-> << >>] >>
            ELSE << TRUE, [text |-> "TRD content is valid", sections |-> << >>] >>

ShortTrdMissingTwoSections ==
    /\ Returned /\ platform = "validate_trd_content"
    /\ dump.content # << >>
    /\ len(strip(dump.content)) < 500
    /\ dump.content[1].kind = "space"
    /\ \E i \in DOMAIN dump.content : dump.content[i].case = "upper"
    /\ state.result[2].sections = << "API Requirements", "Testing Strategy" >>

\* C27: every numbered bounding box drawn on the Mac annotated screenshot
\* has a line with the same number in PageState.to_string(): the labels
\* drawn are a subset of the numbers listed, for any number of elements.
MacDrawnLabelsAreListed ==
    (Returned /\ platform = "mac" /\ use_vision) =>
        {b.label : b \in Range(Overlay.boxes)}
            \subseteq {line.number : line \in Range(PrintedList)}

\* the positions of the elements that have a name or a label
NamedPositions == {i \in DOMAIN Elements : Elements[i].name # "" \/ Elements[i].label # ""}

\* C28: the "All Elements with Text" list of the iOS to_string() has
\* exactly one line for each element with a non-empty name or label and
\* none for the others, in order, numbered with the element's 1-based
\* position in elements (numbers can have gaps) and marked "(interactive)"
\* exactly when the element's flag is true; the header's "Interactive
\* Elements: N" is the number of lines of the interactive list.
TextListIsTheNamedElements ==
    (Returned /\ platform = "ios") =>
        LET lines == IOSTextLoop(Elements, 0) IN
        /\ Len(lines) = Cardinality(NamedPositions)
        /\ {lines[k].number : k \in DOMAIN lines} = NamedPositions
        /\ \A k \in DOMAIN lines :
              /\ k > 1 => lines[k - 1].number < lines[k].number
              /\ lines[k].interactive = Elements[lines[k].number].interactive
              /\ lines[k].className = Elements[lines[k].number].className
        /\ IOS_to_string_header(state.tree_state).interactive = Len(PrintedList)

TextListWithGapAndBothMarks ==
    /\ Returned /\ platform = "ios"
    /\ Len(Elements) = 3
    /\ NamedPositions = {2, 3}
    /\ Elements[2].interactive /\ ~Elements[3].interactive
    /\ IOSTextLoop(Elements, 0)[1].number = 2
    /\ IOSTextLoop(Elements, 0)[1].interactive
    /\ Len(PrintedList) = 1

\* C29: the classifier of IOSTree._create_element and the helper
\* utils.is_interactive_element agree on every input: an element is marked
\* interactive in the TreeState exactly when is_interactive_element returns
\* True for its type, frame, enabled and visible.
IOSClassifiersAgree ==
    (Returned /\ platform = "ios") =>
        \A elem \in Measured :
            elem.interactive <=>
                is_interactive_element(elem.className, elem.frame.d,
                                       elem.enabled, elem.visible)

(***************************************************************************)
(* Properties of IOSDevice._connect.                                       *)
(***************************************************************************)
\* attempt k connects: WebDriverAgent is there, or is started by the
\* automatic setup of the first attempt, and client.status() succeeds
AttemptConnects(k) ==
    /\ \/ dump.wda_available[k]
       \/ k = 0 /\ env.auto_setup /\ dump.setup_ok
    /\ dump.status_ok[k]

ConnectDone == pc \in {"returned", "raised"}

ConnectCounts ==
    /\ state.attempts <= 3
    /\ state.setups <= 1
    /\ state.setups = 1 => env.auto_setup /\ ~dump.wda_available[0]
    /\ pc = "setup" => state.attempt = 0 /\ env.auto_setup
    /\ pc = "returned" =>
          /\ AttemptConnects(state.attempt)
          /\ \A k \in 0..(state.attempt - 1) : ~AttemptConnects(k)
          /\ state.attempts = state.attempt + 1
          /\ state.failed = state.attempt
    /\ pc = "raised" <=> state.failed = 3
    /\ pc = "raised" => \A k \in 0..2 : ~AttemptConnects(k)

\* C30: _connect makes at most 3 connection attempts, returns at the first
\* attempt whose client status check succeeds and makes no attempt after
\* it, invokes the automatic WebDriverAgent setup at most once (only in
\* the first attempt and only when auto_setup is true), and raises
\* ConnectionError exactly when all 3 attempts fail; it always ends.
ConnectTriesThriceSetsUpOnce ==
    /\ []ConnectCounts
    /\ [][~ConnectDone]_vars
    /\ <>ConnectDone
    /\ (\A k \in 0..2 : ~AttemptConnects(k)) ~> (pc = "raised")

ConnectedAtThirdAttemptAfterSetup ==
    /\ pc = "returned"
    /\ state.attempt = 2
    /\ state.attempts = 3
    /\ state.setups = 1
    /\ state.status_calls = 2

=============================================================================
